---- MODULE Spec2Model ----
(***************************************************************************)
(* Model of pyalgotrade.kraken: HTTPClient (nonce generation, the locked   *)
(* request path of _post, response classification, getLastTrades) and      *)
(* ExchangeMonitor (start / run / processNewTrades / stop).                *)
(*                                                                         *)
(* Threads: "main" is the thread that calls ExchangeMonitor.start(), "bg"  *)
(* is the monitor's background thread (Thread.run), "api1" and "api2" are  *)
(* other threads that call HTTPClient endpoint operations directly.  An    *)
(* endpoint operation is its _post call (two for a limit order: AddOrder,  *)
(* then the QueryOrders lookup) followed by what it makes of the answer.   *)
(* stop() is a single assignment and may be called by anyone at any time.  *)
(* start() is called at most once (threading.Thread's contract).           *)
(*                                                                         *)
(* The exchange, the HTTP connection and the wall clock are the            *)
(* environment.  The clock is observed only by _getNonce and the exchange  *)
(* only by a response, so each advances at the step that observes it: the  *)
(* clock never runs backwards, the exchange holds trades numbered          *)
(* 1..nTrades, and a Trades response with data carries the trades after    *)
(* the given cursor and the newest trade number as 'last'.  A response may *)
(* have any status and any class of body, and the connection may raise.    *)
(***************************************************************************)
EXTENDS Integers, Sequences, FiniteSets, TLC

\* ---------------------------------------------------------------- bounds
MaxClock == 2
MaxApiCalls == 3
MaxPolls == 3
MaxTrades == 3

\* ------------------------------------------------------------- constants
\* Python's None for __lastTradeId / __prevNonce; older than every cursor.
None == -1

MonThreads == {"main", "bg"}
ApiThreads == {"api1", "api2"}
Threads == MonThreads \cup ApiThreads

Free == "free"

\* Endpoint operations the api threads call; buyLimit and sellLimit are
\* _place_limit_order with a different order type.
ApiOps == {"getAccountBalance", "getOpenOrders", "getUserTransactions",
           "getLastTrades", "getAssets", "getOrderBookUpdates",
           "getOrdersInfo", "placeLimitOrder"}

\* The operations the concurrent callers choose from: a public one with one
\* request and the private one with two.
ClientOps == {"getAssets", "placeLimitOrder"}

\* The read-only endpoint operations that report a missing answer as no data.
ReadOnlyOps == {"getAccountBalance", "getOpenOrders", "getUserTransactions",
                "getLastTrades", "getOrderBookUpdates"}

\* Order ids an AddOrder response may carry and open times a QueryOrders
\* response may carry.
OrderIds == {1, 2}
OpenTimes == {1, 2}

Statuses == {"200", "504", "500"}
\* Classes of response body: not JSON at all; a JSON object with a non-empty
\* error field; a falsy JSON value ({} / [] / null); a JSON object with an
\* empty error list and the result the endpoint reads; a JSON object with an
\* empty error list and no such result.
Bodies == {"notjson", "error", "empty", "data", "noresult"}

NoResp == [status |-> "none", body |-> "none", lo |-> 0, hi |-> 0]
NoResult == [kind |-> "pending", err |-> "", lo |-> 0, hi |-> 0]
\* What an endpoint operation hands to its caller: kind is "return" or
\* "raise"; val is "object" (a typed result), "empty" (an empty list) or
\* "none" (None); cursor and opentm are the cursor of getLastTrades and the
\* open time of an Order; oid is the order id of the AddOrder response, txid
\* the id the follow-up lookup asked for, lookups the number of lookups made.
NoOutcome == [kind |-> "pending", err |-> "", val |-> "none", cursor |-> -1,
              opentm |-> 0, oid |-> 0, txid |-> 0, lookups |-> 0]

VARIABLES
    clock,        \* int(time.time()) as last observed
    prevNonce,    \* HTTPClient.__prevNonce
    lock,         \* HTTPClient.__lock: Free or the holding thread
    postPc,       \* per thread: position inside _post
    endpoint,     \* per thread: endpoint of the _post call in progress
    resp,         \* per thread: the response read inside the lock
    result,       \* per thread: outcome of the _post call
    apiCalls,     \* number of _post calls made by the api threads
    nonce,        \* per thread: params["nonce"] of the request being made
    reqNo,        \* history, per thread: number of the request in nonce order
    nIssued,      \* history: nonces issued so far
    maxBefore,    \* history: greatest nonce issued before the latest one
    lastSent,     \* history: number of the request sent last
    nTrades,      \* trades that exist on the exchange, as last observed
    monPc,        \* per monitor thread: position in start() / run()
    since,        \* per monitor thread: argument of getLastTrades
    trades,       \* per monitor thread: local list of processNewTrades
    lastTradeId,  \* ExchangeMonitor.__lastTradeId
    stopFlag,     \* ExchangeMonitor.__stop
    queue,        \* ExchangeMonitor.__queue (trade numbers of ON_TRADE events)
    retLog,       \* history: (trades, cursor, whether the response had data)
                  \* of every monitor poll that returned
    stopPhase,    \* history: where the monitor was when stop() was first called
    op,           \* per api thread: endpoint operation in progress
    outcome       \* per api thread: what the operation hands to its caller

vars == <<clock, prevNonce, lock, postPc, endpoint, resp, result, apiCalls,
          nonce, reqNo, nIssued, maxBefore, lastSent, nTrades, monPc, since, trades, lastTradeId, stopFlag,
          queue, retLog, stopPhase, op, outcome>>

clientVars == <<clock, prevNonce, lock, postPc, endpoint, resp, result,
                apiCalls, nonce, reqNo, nIssued, maxBefore, lastSent, nTrades>>
monVars == <<monPc, since, trades, lastTradeId, stopFlag, queue, retLog,
             stopPhase>>
apiVars == <<op, outcome>>

\* ------------------------------------------------------- pure functions

\* Mutant: the clock is returned as it is.
GetNonce_NoBump(t, prev) == [ret |-> t, prevNonce |-> t]

\* HTTPClient._getNonce: the value returned and the new __prevNonce.
GetNonce(t, prev) ==
    LET ret == IF t = prev THEN t + 1 ELSE t
    IN  [ret |-> ret, prevNonce |-> ret]

\* Mutant: the error field of the body is not looked at.
PostClassify_IgnoresError(r) ==
    IF r.status # "200" /\ r.status # "504"
    THEN [kind |-> "raise", err |-> "HTTPException", lo |-> 0, hi |-> 0]
    ELSE IF r.body = "notjson"
    THEN [kind |-> "none", err |-> "", lo |-> 0, hi |-> 0]
    ELSE [kind |-> IF r.body = "error" THEN "noresult" ELSE r.body,
          err |-> "", lo |-> r.lo, hi |-> r.hi]

\* HTTPClient._post after the lock is released: status check, JSON decoding,
\* error check.  r is the response read (an object, so `if response:` holds).
PostClassify(r) ==
    IF r.status # "200" /\ r.status # "504"
    THEN [kind |-> "raise", err |-> "HTTPException", lo |-> 0, hi |-> 0]
    ELSE IF r.body = "notjson"
    THEN [kind |-> "none", err |-> "", lo |-> 0, hi |-> 0]
    ELSE IF r.body = "error"
    THEN [kind |-> "raise", err |-> "error", lo |-> 0, hi |-> 0]
    ELSE [kind |-> r.body, err |-> "", lo |-> r.lo, hi |-> r.hi]

\* Python truth value of what _post returned (not raised).
Truthy(res) == res.kind \in {"data", "noresult"}

\* HTTPClient.getLastTrades: result[common.traded_pair] / result['last'] fail
\* on a response without the result.
GetLastTradesRaises(res) == res.kind = "noresult"

\* The trades numbered lo+1 .. hi, in the order the exchange lists them.
TradeSeq(lo, hi) == [i \in 1..(hi - lo) |-> lo + i]

\* Mutant: the cursor of the response is dropped, the one given is returned.
GetLastTradesResult_KeepsSince(s, res) ==
    IF Truthy(res)
    THEN [trades |-> TradeSeq(res.lo, res.hi), cursor |-> s]
    ELSE [trades |-> <<>>, cursor |-> s]

\* Mutant: last_trade_id starts as None instead of since.
GetLastTradesResult_ForgetsSince(s, res) ==
    IF Truthy(res)
    THEN [trades |-> TradeSeq(res.lo, res.hi), cursor |-> res.hi]
    ELSE [trades |-> <<>>, cursor |-> None]

\* HTTPClient.getLastTrades after _post returned res and the result was read:
\* (last_trades, last_trade_id).
GetLastTradesResult(s, res) ==
    IF Truthy(res)
    THEN [trades |-> TradeSeq(res.lo, res.hi), cursor |-> res.hi]
    ELSE [trades |-> <<>>, cursor |-> s]

\* Mutant: _post without the lock.
LockAvailable_NoLock(p) == TRUE

\* `with self.__lock:` may be entered by p.
LockAvailable(p) == lock = Free

\* Mutant: `while True`.
LoopContinues_Always(flag) == TRUE

\* ExchangeMonitor.run: the loop test.
LoopContinues(flag) == ~flag

\* The trade lists of a log of returned polls, one after the other.
RECURSIVE Concat(_)
Concat(log) ==
    IF log = <<>> THEN <<>> ELSE log[1].trades \o Concat(Tail(log))

\* Cursor returned by the most recent monitor poll that returned.
LastReturned == IF retLog = <<>> THEN None ELSE retLog[Len(retLog)].cursor

\* Monitor polls issued so far: returned, in progress, or ended by a raise.
NPolls ==
    Len(retLog)
    + Cardinality({p \in MonThreads : monPc[p] \in {"polling", "raised", "crashed"}})

\* ------------------------------------------------------------------ Init
Init ==
    /\ clock = 1
    /\ prevNonce = None
    /\ lock = Free
    /\ postPc = [p \in Threads |-> "idle"]
    /\ endpoint = [p \in Threads |-> "none"]
    /\ resp = [p \in Threads |-> NoResp]
    /\ result = [p \in Threads |-> NoResult]
    /\ apiCalls = 0
    /\ nonce = [p \in Threads |-> None]
    /\ reqNo = [p \in Threads |-> 0]
    /\ nIssued = 0
    /\ maxBefore = None
    /\ lastSent = 0
    /\ nTrades = 0
    /\ monPc = [p \in MonThreads |-> IF p = "main" THEN "created" ELSE "unstarted"]
    /\ since = [p \in MonThreads |-> None]
    /\ trades = [p \in MonThreads |-> <<>>]
    /\ lastTradeId = None
    /\ stopFlag = FALSE
    /\ queue = <<>>
    /\ retLog = <<>>
    /\ stopPhase = "none"
    /\ op = [p \in ApiThreads |-> "none"]
    /\ outcome = [p \in ApiThreads |-> NoOutcome]

\* ------------------------------------------------------ HTTPClient._post
\* `with self.__lock:` entered, then _buildQuery: no caller passes a nonce, so
\* _getNonce reads the clock (t, not before the last reading), the nonce goes
\* into params and the query is signed.
AcquireAndBuild(p) ==
    /\ postPc[p] = "lock"
    /\ LockAvailable(p)
    /\ lock' = p
    /\ \E t \in clock..MaxClock :
         LET n == GetNonce(t, prevNonce)
         IN  /\ clock' = t
             /\ prevNonce' = n.prevNonce
             /\ nonce' = [nonce EXCEPT ![p] = n.ret]
    /\ maxBefore' = IF prevNonce > maxBefore THEN prevNonce ELSE maxBefore
    /\ nIssued' = nIssued + 1
    /\ reqNo' = [reqNo EXCEPT ![p] = nIssued + 1]
    /\ postPc' = [postPc EXCEPT ![p] = "request"]
    /\ UNCHANGED <<endpoint, resp, result, apiCalls, lastSent, nTrades>>
    /\ UNCHANGED monVars
    /\ UNCHANGED apiVars

\* conn._request: the request of the lock holder goes out.
Request(p) ==
    /\ postPc[p] = "request"
    /\ lastSent' = reqNo[p]
    /\ postPc' = [postPc EXCEPT ![p] = "read"]
    /\ UNCHANGED <<clock, prevNonce, lock, endpoint, resp, result, apiCalls,
                   nonce, reqNo, nIssued, maxBefore, nTrades>>
    /\ UNCHANGED monVars
    /\ UNCHANGED apiVars

\* The `since` argument of the getLastTrades call of p: the monitor passes
\* its cursor, a direct caller none.
SinceArg(p) == IF p \in MonThreads THEN since[p] ELSE None

\* response.read(), then the with-block ends and the lock is released.  A
\* Trades response with data lists the trades after the cursor given (after a
\* start of the server's choice when none was given) up to the newest one;
\* an AddOrder response with data carries the id of the new order (lo), a
\* QueryOrders response with data its open time (hi).
Read(p) ==
    /\ postPc[p] = "read"
    /\ \E st \in Statuses, b \in Bodies :
         IF endpoint[p] = "Trades" /\ b = "data"
         THEN \E hi \in nTrades..MaxTrades :
              \E lo \in (IF SinceArg(p) = None THEN 0..hi ELSE {SinceArg(p)}) :
                /\ nTrades' = hi
                /\ resp' = [resp EXCEPT ![p] =
                              [status |-> st, body |-> b, lo |-> lo, hi |-> hi]]
         ELSE /\ nTrades' = nTrades
              /\ \E id \in (IF endpoint[p] = "AddOrder" /\ b = "data"
                             THEN OrderIds ELSE {0}),
                    tm \in (IF endpoint[p] = "QueryOrders" /\ b = "data"
                             THEN OpenTimes ELSE {0}) :
                   resp' = [resp EXCEPT ![p] =
                              [status |-> st, body |-> b, lo |-> id, hi |-> tm]]
    /\ lock' = Free
    /\ postPc' = [postPc EXCEPT ![p] = "classify"]
    /\ UNCHANGED <<clock, prevNonce, endpoint, result, apiCalls, nonce, reqNo, nIssued, maxBefore, lastSent>>
    /\ UNCHANGED monVars
    /\ UNCHANGED apiVars

\* Mutant: acquire() / release() without try-finally: an exception skips the
\* release.
TransportRaises_KeepsLock(p) ==
    /\ postPc[p] \in {"request", "read"}
    /\ result' = [result EXCEPT ![p] =
                    [kind |-> "raise", err |-> "transport", lo |-> 0, hi |-> 0]]
    /\ nonce' = [nonce EXCEPT ![p] = None]
    /\ reqNo' = [reqNo EXCEPT ![p] = 0]
    /\ postPc' = [postPc EXCEPT ![p] = "done"]
    /\ UNCHANGED <<clock, prevNonce, lock, endpoint, resp, apiCalls, nIssued,
                   maxBefore, lastSent, nTrades>>
    /\ UNCHANGED monVars
    /\ UNCHANGED apiVars

\* conn._request or response.read() raises: the with-block releases the lock
\* and the exception leaves _post.
TransportRaises(p) ==
    /\ postPc[p] \in {"request", "read"}
    /\ lock' = Free
    /\ result' = [result EXCEPT ![p] =
                    [kind |-> "raise", err |-> "transport", lo |-> 0, hi |-> 0]]
    /\ nonce' = [nonce EXCEPT ![p] = None]
    /\ reqNo' = [reqNo EXCEPT ![p] = 0]
    /\ postPc' = [postPc EXCEPT ![p] = "done"]
    /\ UNCHANGED <<clock, prevNonce, endpoint, resp, apiCalls, nIssued,
                   maxBefore, lastSent, nTrades>>
    /\ UNCHANGED monVars
    /\ UNCHANGED apiVars

\* Status check, JSON decoding and error check, outside the lock.
Classify(p) ==
    /\ postPc[p] = "classify"
    /\ result' = [result EXCEPT ![p] = PostClassify(resp[p])]
    /\ postPc' = [postPc EXCEPT ![p] = "done"]
    /\ UNCHANGED <<clock, prevNonce, lock, endpoint, resp, apiCalls, nonce, reqNo, nIssued, maxBefore, lastSent,
                   nTrades>>
    /\ UNCHANGED monVars
    /\ UNCHANGED apiVars

\* ------------------------------------------- endpoint calls of api threads
\* The endpoint an operation posts to first.
FirstEndpoint(o) ==
    CASE o = "getAccountBalance" -> "Balance"
      [] o = "getOpenOrders" -> "OpenOrders"
      [] o = "getUserTransactions" -> "TradesHistory"
      [] o = "getLastTrades" -> "Trades"
      [] o = "getAssets" -> "AssetPairs"
      [] o = "getOrderBookUpdates" -> "Depth"
      [] o = "getOrdersInfo" -> "QueryOrders"
      [] o = "placeLimitOrder" -> "AddOrder"

Raises(e) == [NoOutcome EXCEPT !.kind = "raise", !.err = e]
Returns(v) == [NoOutcome EXCEPT !.kind = "return", !.val = v]

\* Mutant: the Order is built from the AddOrder response alone.
PlaceLimitOrderOutcome_NoLookup(e, res, descrOk) ==
    IF ~Truthy(res) THEN Returns("none")
    ELSE IF res.kind = "noresult" THEN Raises("KeyError")
    ELSE IF ~descrOk THEN Raises("Not expected order description format")
    ELSE [Returns("object") EXCEPT !.oid = res.lo]

\* _place_limit_order after a _post call that returned res: after AddOrder,
\* no data ends the operation with None and data leads to the lookup
\* getOrdersInfo([oid]) (kind "lookup"); after QueryOrders, the Order gets the
\* open time of the lookup, and indexing a lookup without data raises.
\* descrOk tells whether the order description of the AddOrder response has
\* the six parts parse_order_descr expects.
PlaceLimitOrderOutcome(e, res, descrOk) ==
    IF e = "AddOrder"
    THEN IF ~Truthy(res) THEN Returns("none")
         ELSE IF res.kind = "noresult" THEN Raises("KeyError")
         ELSE [NoOutcome EXCEPT !.kind = "lookup", !.oid = res.lo,
                                !.txid = res.lo]
    ELSE IF res.kind # "data" THEN Raises("TypeError")
         ELSE IF ~descrOk THEN Raises("Not expected order description format")
         ELSE [Returns("object") EXCEPT !.opentm = res.hi]

\* What operation o does with res, the outcome of its _post call to endpoint
\* e: an exception of _post passes through every operation; otherwise the
\* operation reads the answer.
EndpointOutcome(o, e, res, descrOk) ==
    IF res.kind = "raise" THEN Raises(res.err)
    ELSE CASE o = "getAccountBalance" ->
                IF Truthy(res) THEN Returns("object")
                ELSE Raises("Balance not available")
           [] o = "getOpenOrders" ->
                IF res.kind = "data" THEN Returns("object") ELSE Returns("empty")
           [] o = "getUserTransactions" ->
                IF res.kind = "noresult" THEN Raises("TypeError")
                ELSE IF Truthy(res) THEN Returns("object") ELSE Returns("empty")
           [] o = "getLastTrades" ->
                IF GetLastTradesRaises(res) THEN Raises("TypeError")
                ELSE LET r == GetLastTradesResult(None, res)
                     IN  [Returns(IF r.trades = <<>> THEN "empty" ELSE "object")
                            EXCEPT !.cursor = r.cursor]
           [] o = "getAssets" -> Returns("none")
           [] o = "getOrderBookUpdates" ->
                IF res.kind = "noresult" THEN Raises("TypeError")
                ELSE IF Truthy(res) THEN Returns("object") ELSE Returns("none")
           [] o = "getOrdersInfo" ->
                IF res.kind = "data"
                THEN [Returns("object") EXCEPT !.opentm = res.hi]
                ELSE Returns("none")
           [] o = "placeLimitOrder" -> PlaceLimitOrderOutcome(e, res, descrOk)

\* An endpoint operation, one of ops, up to its first _post call.
EndpointCall(p, ops) ==
    /\ postPc[p] = "idle"
    /\ apiCalls < MaxApiCalls
    /\ apiCalls' = apiCalls + 1
    /\ \E o \in ops :
         /\ op' = [op EXCEPT ![p] = o]
         /\ endpoint' = [endpoint EXCEPT ![p] = FirstEndpoint(o)]
    /\ postPc' = [postPc EXCEPT ![p] = "lock"]
    /\ UNCHANGED <<clock, prevNonce, lock, resp, result, nonce, reqNo, nIssued, maxBefore, lastSent, nTrades>>
    /\ UNCHANGED outcome
    /\ UNCHANGED monVars

\* The endpoint operation after a _post call: it returns or raises to its
\* caller, or _place_limit_order calls getOrdersInfo, whose _post begins
\* (while the callers have _post calls left within the bound).
EndpointReturn(p) ==
    /\ postPc[p] = "done"
    /\ \E descrOk \in BOOLEAN :
         LET out == EndpointOutcome(op[p], endpoint[p], result[p], descrOk)
         IN  IF out.kind = "lookup"
             THEN /\ apiCalls < MaxApiCalls
                  /\ apiCalls' = apiCalls + 1
                  /\ outcome' = [outcome EXCEPT ![p] =
                                   [out EXCEPT !.kind = "pending",
                                               !.lookups = outcome[p].lookups + 1]]
                  /\ endpoint' = [endpoint EXCEPT ![p] = "QueryOrders"]
                  /\ resp' = [resp EXCEPT ![p] = NoResp]
                  /\ postPc' = [postPc EXCEPT ![p] = "lock"]
             ELSE /\ outcome' = [outcome EXCEPT ![p] =
                                   [out EXCEPT !.oid = outcome[p].oid,
                                               !.txid = outcome[p].txid,
                                               !.lookups = outcome[p].lookups]]
                  /\ postPc' = [postPc EXCEPT ![p] = "returned"]
                  /\ UNCHANGED <<endpoint, resp, apiCalls>>
    /\ result' = [result EXCEPT ![p] = NoResult]
    /\ UNCHANGED <<clock, prevNonce, lock, nonce, reqNo, nIssued, maxBefore, lastSent, nTrades>>
    /\ UNCHANGED op
    /\ UNCHANGED monVars

\* The caller has the value or the exception and goes on.
CallerContinues(p) ==
    /\ postPc[p] = "returned"
    /\ postPc' = [postPc EXCEPT ![p] = "idle"]
    /\ op' = [op EXCEPT ![p] = "none"]
    /\ endpoint' = [endpoint EXCEPT ![p] = "none"]
    /\ resp' = [resp EXCEPT ![p] = NoResp]
    /\ outcome' = [outcome EXCEPT ![p] = NoOutcome]
    /\ UNCHANGED <<clock, prevNonce, lock, result, apiCalls, nonce, reqNo, nIssued, maxBefore, lastSent, nTrades>>
    /\ UNCHANGED monVars

\* -------------------------------------------------------- ExchangeMonitor
\* Mutant: getLastTrades() called without the stored cursor.
BeginPoll_NoCursor(p) ==
    /\ since' = [since EXCEPT ![p] = None]
    /\ endpoint' = [endpoint EXCEPT ![p] = "Trades"]
    /\ postPc' = [postPc EXCEPT ![p] = "lock"]

\* processNewTrades up to the _post call of getLastTrades(self.__lastTradeId).
BeginPoll(p) ==
    /\ since' = [since EXCEPT ![p] = lastTradeId]
    /\ endpoint' = [endpoint EXCEPT ![p] = "Trades"]
    /\ postPc' = [postPc EXCEPT ![p] = "lock"]

\* Mutant: start() launches the thread without the poll.
Start_ThreadOnly ==
    /\ monPc["main"] = "created"
    /\ monPc' = [monPc EXCEPT !["main"] = "started", !["bg"] = "check"]
    /\ UNCHANGED clientVars
    /\ UNCHANGED apiVars
    /\ UNCHANGED <<since, trades, lastTradeId, stopFlag, queue, retLog, stopPhase>>

\* Mutant: start() skips the poll when the stop flag is already set.
Start_HonoursStop ==
    /\ monPc["main"] = "created"
    /\ IF stopFlag
       THEN /\ monPc' = [monPc EXCEPT !["main"] = "started", !["bg"] = "check"]
            /\ UNCHANGED <<postPc, endpoint, since>>
       ELSE /\ BeginPoll("main")
            /\ monPc' = [monPc EXCEPT !["main"] = "polling"]
    /\ UNCHANGED <<clock, prevNonce, lock, resp, result, apiCalls, nonce, reqNo, nIssued, maxBefore, lastSent,
                   nTrades>>
    /\ UNCHANGED <<trades, lastTradeId, stopFlag, queue, retLog, stopPhase>>
    /\ UNCHANGED apiVars

\* start(): the caller begins processNewTrades.
Start ==
    /\ monPc["main"] = "created"
    /\ BeginPoll("main")
    /\ monPc' = [monPc EXCEPT !["main"] = "polling"]
    /\ UNCHANGED <<clock, prevNonce, lock, resp, result, apiCalls, nonce, reqNo, nIssued, maxBefore, lastSent,
                   nTrades>>
    /\ UNCHANGED <<trades, lastTradeId, stopFlag, queue, retLog, stopPhase>>
    /\ UNCHANGED apiVars

\* Mutant: a poll that raises resets the cursor.
PollReturn_ClearsOnError(p) ==
    /\ monPc[p] = "polling"
    /\ postPc[p] = "done"
    /\ postPc' = [postPc EXCEPT ![p] = "idle"]
    /\ endpoint' = [endpoint EXCEPT ![p] = "none"]
    /\ result' = [result EXCEPT ![p] = NoResult]
    /\ resp' = [resp EXCEPT ![p] = NoResp]
    /\ IF result[p].kind = "raise" \/ GetLastTradesRaises(result[p])
       THEN /\ monPc' = [monPc EXCEPT ![p] = IF p = "main" THEN "raised" ELSE "crashed"]
            /\ lastTradeId' = None
            /\ UNCHANGED <<trades, retLog>>
       ELSE LET r == GetLastTradesResult(since[p], result[p])
            IN  /\ trades' = [trades EXCEPT ![p] = r.trades]
                /\ lastTradeId' = r.cursor
                /\ retLog' = Append(retLog, [trades |-> r.trades,
                                              cursor |-> r.cursor,
                                              data |-> Truthy(result[p])])
                /\ monPc' = [monPc EXCEPT ![p] = "publishing"]
    /\ UNCHANGED <<clock, prevNonce, lock, apiCalls, nonce, reqNo, nIssued, maxBefore, lastSent, nTrades>>
    /\ UNCHANGED <<since, stopFlag, queue, stopPhase>>
    /\ UNCHANGED apiVars

\* getLastTrades returns and processNewTrades stores trades and cursor, or
\* the exception of _post leaves getLastTrades, processNewTrades and its
\* caller: start() on "main", run() on "bg".
PollReturn(p) ==
    /\ monPc[p] = "polling"
    /\ postPc[p] = "done"
    /\ postPc' = [postPc EXCEPT ![p] = "idle"]
    /\ endpoint' = [endpoint EXCEPT ![p] = "none"]
    /\ result' = [result EXCEPT ![p] = NoResult]
    /\ resp' = [resp EXCEPT ![p] = NoResp]
    /\ IF result[p].kind = "raise" \/ GetLastTradesRaises(result[p])
       THEN /\ monPc' = [monPc EXCEPT ![p] = IF p = "main" THEN "raised" ELSE "crashed"]
            /\ UNCHANGED <<trades, lastTradeId, retLog>>
       ELSE LET r == GetLastTradesResult(since[p], result[p])
            IN  /\ trades' = [trades EXCEPT ![p] = r.trades]
                /\ lastTradeId' = r.cursor
                /\ retLog' = Append(retLog, [trades |-> r.trades,
                                              cursor |-> r.cursor,
                                              data |-> Truthy(result[p])])
                /\ monPc' = [monPc EXCEPT ![p] = "publishing"]
    /\ UNCHANGED <<clock, prevNonce, lock, apiCalls, nonce, reqNo, nIssued, maxBefore, lastSent, nTrades>>
    /\ UNCHANGED <<since, stopFlag, queue, stopPhase>>
    /\ UNCHANGED apiVars

\* Mutant: the publishing loop gives up once the stop flag is set.
OnTrade_StopAware(p) ==
    /\ monPc[p] = "publishing"
    /\ trades[p] # <<>>
    /\ queue' = IF stopFlag THEN queue ELSE Append(queue, Head(trades[p]))
    /\ trades' = [trades EXCEPT ![p] = IF stopFlag THEN <<>> ELSE Tail(trades[p])]
    /\ UNCHANGED clientVars
    /\ UNCHANGED apiVars
    /\ UNCHANGED <<monPc, since, lastTradeId, stopFlag, retLog, stopPhase>>

\* One turn of `for trade in trades: self.onTrade(trade)`.
OnTrade(p) ==
    /\ monPc[p] = "publishing"
    /\ trades[p] # <<>>
    /\ queue' = Append(queue, Head(trades[p]))
    /\ trades' = [trades EXCEPT ![p] = Tail(trades[p])]
    /\ UNCHANGED clientVars
    /\ UNCHANGED apiVars
    /\ UNCHANGED <<monPc, since, lastTradeId, stopFlag, retLog, stopPhase>>

\* Mutant: the thread is launched once the poll has returned, before its
\* trades are published.
ThreadStart_Early ==
    /\ monPc["main"] = "publishing"
    /\ monPc' = [monPc EXCEPT !["main"] = "started", !["bg"] = "check"]
    /\ UNCHANGED clientVars
    /\ UNCHANGED apiVars
    /\ UNCHANGED <<since, trades, lastTradeId, stopFlag, queue, retLog, stopPhase>>

\* start(): processNewTrades is over, Thread.start() launches run().
ThreadStart ==
    /\ monPc["main"] = "publishing"
    /\ trades["main"] = <<>>
    /\ monPc' = [monPc EXCEPT !["main"] = "started", !["bg"] = "check"]
    /\ UNCHANGED clientVars
    /\ UNCHANGED apiVars
    /\ UNCHANGED <<since, trades, lastTradeId, stopFlag, queue, retLog, stopPhase>>

\* run(): `while not self.__stop`, then the body begins processNewTrades.
RunTest ==
    /\ monPc["bg"] = "check"
    /\ IF LoopContinues(stopFlag)
       THEN /\ NPolls < MaxPolls
            /\ BeginPoll("bg")
            /\ monPc' = [monPc EXCEPT !["bg"] = "polling"]
       ELSE /\ monPc' = [monPc EXCEPT !["bg"] = "exited"]
            /\ UNCHANGED <<postPc, endpoint, since>>
    /\ UNCHANGED <<clock, prevNonce, lock, resp, result, apiCalls, nonce, reqNo, nIssued, maxBefore, lastSent,
                   nTrades>>
    /\ UNCHANGED <<trades, lastTradeId, stopFlag, queue, retLog, stopPhase>>
    /\ UNCHANGED apiVars

\* run(): processNewTrades is over, sleep(POLL_FREQUENCY) begins.
Sleep ==
    /\ monPc["bg"] = "publishing"
    /\ trades["bg"] = <<>>
    /\ monPc' = [monPc EXCEPT !["bg"] = "sleep"]
    /\ UNCHANGED clientVars
    /\ UNCHANGED apiVars
    /\ UNCHANGED <<since, trades, lastTradeId, stopFlag, queue, retLog, stopPhase>>

\* run(): the sleep ends, back to the loop test.
SleepEnd ==
    /\ monPc["bg"] = "sleep"
    /\ monPc' = [monPc EXCEPT !["bg"] = "check"]
    /\ UNCHANGED clientVars
    /\ UNCHANGED apiVars
    /\ UNCHANGED <<since, trades, lastTradeId, stopFlag, queue, retLog, stopPhase>>

\* Where the monitor is: before start() ("created"), inside start() before
\* the thread is launched ("starting"), or the position of run().
Phase ==
    IF monPc["bg"] # "unstarted" THEN monPc["bg"]
    ELSE IF monPc["main"] = "created" THEN "created" ELSE "starting"

\* Mutant: stop() flips the flag.
Stop_Toggles ==
    /\ stopFlag' = ~stopFlag
    /\ stopPhase' = IF stopFlag THEN "none" ELSE Phase
    /\ UNCHANGED clientVars
    /\ UNCHANGED apiVars
    /\ UNCHANGED <<monPc, since, trades, lastTradeId, queue, retLog>>

\* stop(): self.__stop = True (a second call changes nothing).
Stop ==
    /\ ~stopFlag
    /\ stopFlag' = TRUE
    /\ stopPhase' = Phase
    /\ UNCHANGED clientVars
    /\ UNCHANGED apiVars
    /\ UNCHANGED <<monPc, since, trades, lastTradeId, queue, retLog>>

\* ------------------------------------------------------------------ Next
PostStep(p) ==
    \/ AcquireAndBuild(p)
    \/ Request(p)
    \/ Read(p)
    \/ TransportRaises(p)
    \/ Classify(p)

ApiStep(p) ==
    \/ EndpointCall(p, ClientOps)
    \/ EndpointReturn(p)
    \/ CallerContinues(p)

\* Steps of a single caller that may call every endpoint operation.
SoloStep ==
    \/ EndpointCall("api1", ApiOps)
    \/ EndpointReturn("api1")
    \/ CallerContinues("api1")

\* Steps of run() on the background thread.
BgStep ==
    \/ PollReturn("bg")
    \/ OnTrade("bg")
    \/ RunTest
    \/ Sleep
    \/ SleepEnd

\* Steps of start() on the calling thread.
MainStep ==
    \/ Start
    \/ PollReturn("main")
    \/ OnTrade("main")
    \/ ThreadStart

MonStep ==
    \/ MainStep
    \/ BgStep

\* The two halves meet only in _post: a step of an api thread leaves the
\* monitor's variables alone and touches a monitor thread only through the
\* lock (when its _post may proceed) and the nonce (which the monitor never
\* reads); PostStep is the same for every thread.  A behaviour of Spec
\* therefore projects onto a behaviour of MonitorSpec over the monitor's
\* variables, and the properties of _post are checked with the api threads
\* as its callers.  What an endpoint operation makes of an answer does not
\* depend on other threads, so it is checked with one caller that may call
\* every operation, and the concurrent callers use two operations: one with
\* a single request and the one with two.

\* The client alone: threads calling endpoint operations.
NextClient ==
    \/ \E p \in ApiThreads : PostStep(p)
    \/ \E p \in ApiThreads : ApiStep(p)

\* One caller, every endpoint operation.
NextEndpoint ==
    \/ PostStep("api1")
    \/ SoloStep

\* The monitor alone: its two threads, their polls and stop().
NextMonitor ==
    \/ \E p \in MonThreads : PostStep(p)
    \/ MonStep
    \/ Stop

Next ==
    \/ NextClient
    \/ NextEndpoint
    \/ NextMonitor

Spec == Init /\ [][Next]_vars

ClientSpec == Init /\ [][NextClient]_vars

EndpointSpec == Init /\ [][NextEndpoint]_vars

MonitorSpec == Init /\ [][NextMonitor]_vars

\* The monitor with a background thread that keeps running and network calls
\* that return or raise.
LiveSpec ==
    /\ Init
    /\ [][NextMonitor]_vars
    /\ WF_vars(BgStep)
    /\ WF_vars(\E p \in MonThreads : PostStep(p))

\* ---------------------------------------------------------------- claims
InCS(p) == postPc[p] \in {"request", "read"}

\* Trades of a returned poll not yet put on the queue.
Pending == trades["main"] \o trades["bg"]

BgIdle == monPc["bg"] \in {"sleep", "check", "exited"}

\* C1: every nonce issued is greater than every nonce issued before it, in
\* the order the callers acquired the lock.
C1_NoncesStrictlyIncreasing == nIssued = 0 \/ prevNonce > maxBefore

\* C2: get-nonce, sign, send and read-response are one critical section: at
\* most one request is between its nonce and the end of its read, it is the
\* request with the latest nonce, and requests are sent in nonce order.
C2_SingleCriticalSection ==
    /\ [](/\ Cardinality({p \in Threads : InCS(p)}) <= 1
          /\ \A p \in Threads : InCS(p) => lock = p /\ reqNo[p] = nIssued
          /\ \A p \in Threads : postPc[p] = "request" => lastSent < nIssued
          /\ \A p \in Threads : postPc[p] = "read" => lastSent = nIssued)
    /\ [][lastSent' # lastSent => lastSent' > lastSent /\ lastSent' = nIssued]_vars

C2_Witness ==
    \E p, q \in Threads :
        /\ postPc[p] = "read"
        /\ postPc[q] = "lock"
        /\ lastSent = 2

\* C3: the queue holds the trades of the polls that returned, in poll order
\* and in receipt order within a poll, each once (the trades of the poll
\* being published that are not yet put follow it).
C3_QueueIsConcatenation ==
    /\ queue \o Pending = Concat(retLog)
    /\ \A i, j \in 1..Len(queue) : i # j => queue[i] # queue[j]

C3_Witness ==
    /\ Len(retLog) = 2
    /\ retLog[1].trades = <<1, 2>> /\ retLog[1].cursor = 2
    /\ retLog[2].trades = <<3>> /\ retLog[2].cursor = 3
    /\ monPc["bg"] = "sleep"
    /\ queue = <<1, 2, 3>>

\* C4: the first poll passes None and every later poll passes the cursor
\* returned by the poll before it.
C4_SinceIsLastCursor ==
    \A p \in MonThreads :
        monPc[p] = "polling" =>
            /\ since[p] = LastReturned
            /\ NPolls = 1 => since[p] = None

C4_Witness ==
    /\ monPc["bg"] = "polling"
    /\ Len(retLog) = 2
    /\ retLog[1].cursor = 1
    /\ retLog[2].cursor = 2
    /\ since["bg"] = 2

\* C5: once stop() has been called with the loop between two cycles, no
\* further poll is issued and nothing more is put on the queue.
C5_NoPollAfterStopInSleep ==
    [][(stopFlag /\ BgIdle) =>
          (stopFlag' /\ BgIdle' /\ NPolls' = NPolls /\ queue' = queue)]_vars

C5_Witness ==
    /\ stopPhase = "sleep"
    /\ monPc["bg"] = "exited"
    /\ NPolls = 2

\* C6: a poll that raises in the background loop does not end the loop.
C6_LoopSurvivesPollError == monPc["bg"] # "crashed"

\* C7 as stated: before start() is called one poll has completed and the
\* stored cursor is the one it returned.
C7_SeededAtConstruction ==
    monPc["main"] = "created" =>
        /\ Len(retLog) = 1
        /\ lastTradeId = LastReturned

\* C7 amended: no poll is issued before start(); start() issues exactly one
\* poll on the calling thread and launches the background thread only after
\* it returned, so the first background poll passes the cursor it returned,
\* which is not None when that poll yielded data.
C7_SeededAtStart ==
    /\ monPc["main"] = "created" =>
          NPolls = 0 /\ lastTradeId = None /\ queue = <<>>
    /\ monPc["main"] \in {"polling", "publishing", "raised"} =>
          NPolls = 1 /\ monPc["bg"] = "unstarted"
    /\ monPc["bg"] # "unstarted" =>
          monPc["main"] = "started" /\ Len(retLog) >= 1
    /\ (monPc["bg"] = "polling" /\ NPolls = 2) =>
          /\ since["bg"] = retLog[1].cursor
          /\ retLog[1].data => since["bg"] # None

C7_Witness ==
    /\ monPc["bg"] = "polling"
    /\ NPolls = 2
    /\ retLog[1].data
    /\ since["bg"] = 2

\* C8: the stored cursor never rewinds, and a poll that yields no data
\* leaves it as it was.
C8_CursorNeverRewinds ==
    [][/\ lastTradeId' >= lastTradeId
       /\ \A p \in MonThreads :
            (monPc[p] = "polling" /\ monPc'[p] = "publishing" /\ ~Truthy(result[p]))
                => lastTradeId' = lastTradeId]_vars

C8_Witness ==
    /\ Len(retLog) = 2
    /\ retLog[1].data /\ retLog[1].cursor = 2
    /\ ~retLog[2].data
    /\ lastTradeId = 2

\* C9: after stop() the running background thread eventually terminates.
C9_StopTerminates ==
    (stopFlag /\ monPc["bg"] # "unstarted") ~> (monPc["bg"] \in {"exited", "crashed"})

C9_Witness ==
    /\ stopPhase = "polling"
    /\ monPc["bg"] = "exited"

\* C10: when stop() is called during a cycle's poll or publishing, the
\* cycle still stores the cursor returned and puts every trade of the poll,
\* in order, before the loop exits.
C10_StopDoesNotInterrupt ==
    (stopPhase \in {"polling", "publishing"} /\ BgIdle) =>
        /\ queue = Concat(retLog)
        /\ lastTradeId = LastReturned
        /\ Len(retLog) = NPolls

C10_Witness ==
    /\ stopPhase = "publishing"
    /\ monPc["bg"] = "exited"
    /\ Len(retLog) = 2
    /\ Len(retLog[2].trades) = 2
    /\ queue = <<1, 2, 3>>

\* An endpoint operation of p has handed its outcome to the caller; resp[p] is
\* the response of its last request (NoResp when the connection raised).
Returned(p) == postPc[p] = "returned"

C12_GatewayTimeoutIsNoOp ==
    \A p \in Threads :
        (postPc[p] = "done" /\ resp[p].status = "504")
            => (result[p].kind # "raise" /\ ~Truthy(result[p]))

\* C13: with a body that is not valid JSON (HTTP status 200), every read-only
\* endpoint operation returns normally with no data: an empty collection or
\* None, and no new cursor.
C13_NotJsonIsNoData ==
    \A p \in ApiThreads :
        (Returned(p) /\ op[p] \in ReadOnlyOps
                     /\ resp[p].status = "200" /\ resp[p].body = "notjson")
            => /\ outcome[p].kind = "return"
               /\ outcome[p].val \in {"empty", "none"}
               /\ outcome[p].cursor = None

\* C14: _place_limit_order makes at most one lookup, only after AddOrder
\* returned data and for the order id AddOrder returned; every placement
\* whose AddOrder returned data has made that lookup before it returns or
\* raises; an Order is returned only after the lookup and carries the open
\* time of the lookup's response; without a lookup no Order is returned.
C14_TwoRoundTrips ==
    \A p \in ApiThreads :
        op[p] = "placeLimitOrder" =>
            /\ outcome[p].lookups = (IF endpoint[p] = "QueryOrders" THEN 1 ELSE 0)
            /\ outcome[p].lookups = 1
                   => (outcome[p].oid \in OrderIds /\ outcome[p].txid = outcome[p].oid)
            /\ (Returned(p) /\ endpoint[p] = "AddOrder")
                   => /\ resp[p] = NoResp \/ PostClassify(resp[p]).kind # "data"
                      /\ outcome[p].val # "object"
            /\ (Returned(p) /\ outcome[p].val = "object")
                   => /\ outcome[p].lookups = 1
                      /\ resp[p].body = "data"
                      /\ outcome[p].opentm = resp[p].hi
                      /\ outcome[p].opentm \in OpenTimes

C14_Witness ==
    \E p \in ApiThreads :
        /\ Returned(p)
        /\ op[p] = "placeLimitOrder"
        /\ outcome[p].kind = "return"
        /\ outcome[p].val = "object"
        /\ outcome[p].lookups = 1
        /\ outcome[p].oid = 2
        /\ outcome[p].txid = 2
        /\ outcome[p].opentm = 1

\* C15: _getNonce, called with the clock at t and p as previous nonce (or
\* none), returns t + 1 when t = p and t otherwise and stores what it returns
\* as the previous nonce; so a call in the second t that follows a call that
\* returned t returns t + 1.
C15_GetNonce ==
    [][\A p \in Threads :
          (postPc[p] = "lock" /\ postPc'[p] = "request")
              => /\ nonce'[p] = (IF clock' = prevNonce THEN clock' + 1 ELSE clock')
                 /\ prevNonce' = nonce'[p]
                 /\ (nIssued > 0 /\ prevNonce = clock') => nonce'[p] = prevNonce + 1
      ]_vars

\* Two calls in second 1 have returned 1 and then 2.
C15_Witness ==
    /\ nIssued = 2
    /\ clock = 1
    /\ maxBefore = 1
    /\ prevNonce = 2
    /\ \E p \in ApiThreads : nonce[p] = 2

\* Created (0), Running (1), Stopped (2) as positions of the background
\* thread.
LifecycleRank(pc) ==
    IF pc = "unstarted" THEN 0
    ELSE IF pc \in {"exited", "crashed"} THEN 2
    ELSE 1

\* C16: the stop flag is never cleared, the background thread only moves
\* forward through not started, running, ended, and once its loop has ended
\* no poll is issued and nothing is put on the queue.
C16_LifecycleForward ==
    [][/\ stopFlag => stopFlag'
       /\ LifecycleRank(monPc'["bg"]) >= LifecycleRank(monPc["bg"])
       /\ LifecycleRank(monPc["bg"]) = 2
             => /\ monPc'["bg"] = monPc["bg"]
                /\ NPolls' = NPolls
                /\ postPc' = postPc
                /\ queue' = queue
                /\ lastTradeId' = lastTradeId
      ]_vars

C16_Witness ==
    /\ monPc["bg"] = "exited"
    /\ stopFlag
    /\ NPolls = 2
    /\ Len(queue) = 3

\* Monitor threads inside processNewTrades.
Polling == {p \in MonThreads : monPc[p] \in {"polling", "publishing"}}

\* C17: at most one monitor thread is inside processNewTrades and at most one
\* has a _post call in progress; once the background thread exists, start()'s
\* poll has returned, start() has left processNewTrades and the queue begins
\* with all the trades of that poll.
C17_OnePollInFlight ==
    /\ Cardinality(Polling) <= 1
    /\ Cardinality({p \in MonThreads : postPc[p] # "idle"}) <= 1
    /\ monPc["bg"] # "unstarted"
          => /\ monPc["main"] = "started"
             /\ postPc["main"] = "idle"
             /\ trades["main"] = <<>>
             /\ retLog # <<>>
             /\ Len(queue) >= Len(retLog[1].trades)
             /\ SubSeq(queue, 1, Len(retLog[1].trades)) = retLog[1].trades

C17_Witness ==
    /\ monPc["bg"] = "polling"
    /\ postPc["bg"] = "read"
    /\ monPc["main"] = "started"
    /\ NPolls = 2
    /\ queue = <<1, 2>>

\* C18: only a thread between acquiring the lock and the end of the read
\* holds it: the lock is free when no thread is there, also after a request
\* or read that raised, and a thread that is about to acquire it, classifies
\* its response or has left _post does not hold it.
C18_LockFreeOutsideCS ==
    /\ (\A p \in Threads : ~InCS(p)) => lock = Free
    /\ \A p \in Threads : ~InCS(p) => lock # p

\* One caller's request raised, and the other is inside the critical section
\* of the follow-up lookup of its order placement.
C18_Witness ==
    \E p, q \in ApiThreads :
        /\ postPc[p] = "done"
        /\ result[p].err = "transport"
        /\ op[q] = "placeLimitOrder"
        /\ endpoint[q] = "QueryOrders"
        /\ postPc[q] = "read"
        /\ lock = q

\* C19: when stop() came before start(), start() issues its one poll and
\* puts its trades on the queue, and the background thread goes from its
\* first loop test to the end without a poll.
C19_StopBeforeStart ==
    stopPhase = "created"
        => /\ monPc["bg"] \in {"unstarted", "check", "exited"}
           /\ postPc["bg"] = "idle"
           /\ NPolls = (IF monPc["main"] = "created" THEN 0 ELSE 1)
           /\ monPc["bg"] # "unstarted"
                 => (Len(retLog) = 1 /\ queue = retLog[1].trades)

C19_Witness ==
    /\ stopPhase = "created"
    /\ monPc["bg"] = "exited"
    /\ NPolls = 1
    /\ queue = <<1, 2>>

\* C20: while a monitor poll is in progress, and after it has raised, the
\* stored cursor is the one the poll was given and the queue holds exactly
\* the trades of the polls that returned; the step in which a poll raises
\* changes neither the cursor nor the queue.
C20_FailedPollChangesNothing ==
    /\ [](\A p \in MonThreads :
            monPc[p] \in {"polling", "raised", "crashed"}
                => /\ lastTradeId = since[p]
                   /\ lastTradeId = LastReturned
                   /\ queue = Concat(retLog)
                   /\ trades[p] = <<>>)
    /\ [][\A p \in MonThreads :
            (monPc[p] = "polling" /\ monPc'[p] \in {"raised", "crashed"})
                => (lastTradeId' = lastTradeId /\ queue' = queue
                    /\ retLog' = retLog /\ trades' = trades)
         ]_vars

C20_Witness ==
    /\ monPc["bg"] = "crashed"
    /\ lastTradeId = 2
    /\ queue = <<1, 2>>

====
